---- MODULE Spec2Model ----
(***************************************************************************)
(* DisplayPort AUX retry layer (dp_auxretry.cpp).                          *)
(*                                                                         *)
(*   handleTransaction          the outcome classifier                     *)
(*   AuxRetry::readTransaction  one chunk, retried while the budget lasts  *)
(*   AuxRetry::writeTransaction                                            *)
(*   AuxRetry::read / write     a span, split into chunks                  *)
(*   AuxLogger::transaction     the logging decorator                      *)
(*                                                                         *)
(* One step of the model is one call of AuxBus::transaction together with  *)
(* everything the caller does up to its next call of the bus (or up to its *)
(* return).  The bus itself is the environment.                            *)
(***************************************************************************)
EXTENDS Integers, Sequences, FiniteSets, TLC

\* ------------------------------------------------------------------ bounds
MaxSize ==
    5
MaxT ==
    2
MaxRetries ==
    3
UnsignedBits ==
    16

\* The bus may report more completed bytes than were requested (one more).
MaxCompleted == MaxT + 1

\* unsigned arithmetic wraps; the model keeps UnsignedBits bits of it (the
\* model checker's integers stop short of 2^32).
UnsignedModulus == 2^UnsignedBits

\* Ceiling of the counters of bus calls (they saturate there).
MaxCalls == (MaxSize + 1) * (MaxRetries + 2)

\* ----------------------------------------------------------- vocabulary
BusStatus == {"success", "defer", "nack", "other"}
SingleOps == {"readTransaction", "writeTransaction"}
Addresses == {0, 256}

\* The chunk size taken to be the bus size, whatever is left of the span.
DP_MIN_NoClamp(a, b) == b

\* The chunk size taken to be all that is left of the span.
DP_MIN_Rest(a, b) == a

\* DP_MIN(a, b)
DP_MIN(a, b) == IF a < b THEN a ELSE b

\* One more bus call counted.
Bump(n) == IF n < MaxCalls THEN n + 1 ELSE n

\* The bus action a retry operation issues.
ActionOf(o) == IF o \in {"read", "readTransaction"} THEN "read" ELSE "write"

VARIABLES
    aux,          \* the borrowed bus: transactionSize and how it answers
    pc,           \* "idle", "loop", "txn", "done", "logged"
    op,           \* the operation in progress
    address,      \* arguments of the operation
    size,
    retries,
    i,            \* read/write: offset of the current chunk
    chunkSize,    \* read/write: size of the current chunk
    tAddress,     \* readTransaction/writeTransaction: arguments ...
    tOffset,      \*   (buffer, as an offset into the caller's buffer)
    tSize,
    tRetries,     \*   ... and its own copy of retries, the budget
    status,       \* what the last bus call returned
    completed,
    outcome,      \* what handleTransaction made of it
    budgetBefore, \* the budget when the last bus call was issued
    issued,       \* arguments of the last bus call
    attempts,     \* bus calls of the current readTransaction/writeTransaction
    calls,        \* bus calls of the current operation
    result,       \* what the operation returned
    chunkLog,     \* one entry per readTransaction/writeTransaction entered
    lg            \* AuxLogger::transaction: what its last call did

vars == <<aux, pc, op, address, size, retries, i, chunkSize, tAddress, tOffset,
          tSize, tRetries, status, completed, outcome, budgetBefore, issued,
          attempts, calls, result, chunkLog, lg>>

\* --------------------------------------------------------- the classifier
\* handleTransaction with a short completion that costs no retry.
handleTransactionShortIsFree(st, done, sz, budget) ==
    IF st = "success" /\ done = sz /\ done # 0
      THEN [result |-> "ack", retries |-> budget]
    ELSE IF st = "defer"
      THEN [result |-> "defer", retries |-> IF budget # 0 THEN budget - 1 ELSE budget]
    ELSE IF st = "nack"
      THEN [result |-> "nack", retries |-> budget]
    ELSE IF done = 0
      THEN [result |-> "unsupportedRegister", retries |-> budget]
    ELSE IF done < sz
      THEN [result |-> "defer", retries |-> budget]
    ELSE [result |-> "ack", retries |-> budget]

\* handleTransaction without the tests for zero completed bytes.
handleTransactionZeroIsAck(st, done, sz, budget) ==
    IF st = "success" /\ done = sz
      THEN [result |-> "ack", retries |-> budget]
    ELSE IF st = "defer"
      THEN [result |-> "defer", retries |-> IF budget # 0 THEN budget - 1 ELSE budget]
    ELSE IF st = "nack"
      THEN [result |-> "nack", retries |-> budget]
    ELSE IF done < sz
      THEN [result |-> "defer", retries |-> IF budget # 0 THEN budget - 1 ELSE budget]
    ELSE [result |-> "ack", retries |-> budget]

\* handleTransaction with the test for zero completed bytes ahead of the
\* test for nack.
handleTransactionZeroBeforeNack(st, done, sz, budget) ==
    IF st = "success" /\ done = sz /\ done # 0
      THEN [result |-> "ack", retries |-> budget]
    ELSE IF st = "defer"
      THEN [result |-> "defer", retries |-> IF budget # 0 THEN budget - 1 ELSE budget]
    ELSE IF done = 0
      THEN [result |-> "unsupportedRegister", retries |-> budget]
    ELSE IF st = "nack"
      THEN [result |-> "nack", retries |-> budget]
    ELSE IF done < sz
      THEN [result |-> "defer", retries |-> IF budget # 0 THEN budget - 1 ELSE budget]
    ELSE [result |-> "ack", retries |-> budget]

\* handleTransaction decrementing retries without looking at it; the
\* unsigned counter wraps below zero.
handleTransactionBlindDecrement(st, done, sz, budget) ==
    IF st = "success" /\ done = sz /\ done # 0
      THEN [result |-> "ack", retries |-> budget]
    ELSE IF st = "defer"
      THEN [result |-> "defer", retries |-> (budget - 1) % UnsignedModulus]
    ELSE IF st = "nack"
      THEN [result |-> "nack", retries |-> budget]
    ELSE IF done = 0
      THEN [result |-> "unsupportedRegister", retries |-> budget]
    ELSE IF done < sz
      THEN [result |-> "defer", retries |-> (budget - 1) % UnsignedModulus]
    ELSE [result |-> "ack", retries |-> budget]

\* handleTransaction(status, completed, size, retries&): the result and the
\* value retries has afterwards.
handleTransaction(st, done, sz, budget) ==
    IF st = "success" /\ done = sz /\ done # 0
      THEN [result |-> "ack", retries |-> budget]
    ELSE IF st = "defer"
      THEN IF budget # 0
             THEN [result |-> "defer", retries |-> budget - 1]
             ELSE [result |-> "defer", retries |-> budget]
    ELSE IF st = "nack"
      THEN [result |-> "nack", retries |-> budget]
    ELSE IF done = 0
      THEN [result |-> "unsupportedRegister", retries |-> budget]
    ELSE IF done < sz
      THEN IF budget # 0
             THEN [result |-> "defer", retries |-> budget - 1]
             ELSE [result |-> "defer", retries |-> budget]
    ELSE [result |-> "ack", retries |-> budget]

\* ------------------------------------------------------------- the bus
\* The ways the bus behind aux can answer: anything at all, defer always, or
\* defer on its first `defers` calls of an operation and success after that.
BusKinds ==
    [transactionSize : 1..MaxT, mode : {"any", "alwaysDefer"}, defers : {0}]
      \cup
    [transactionSize : 1..MaxT, mode : {"deferThenSuccess"}, defers : 0..MaxRetries]

\* aux->transaction(...): the (status, completed) pairs the bus may return
\* to its n-th call (counted from 0) asking for sz bytes.
BusTransaction(n, sz) ==
    CASE aux.mode = "any" ->
           [status : BusStatus, completed : 0..(sz + 1)]
      [] aux.mode = "alwaysDefer" ->
           {[status |-> "defer", completed |-> 0]}
      [] aux.mode = "deferThenSuccess" ->
           IF n < aux.defers
             THEN {[status |-> "defer", completed |-> 0]}
             ELSE {[status |-> "success", completed |-> sz]}

\* The reserved mailbox addresses of the sideband message protocol, as the
\* DPCD register map numbers them (1000h, 1200h, 1400h, 1600h).
NV_DPCD_MBOX_DOWN_REQ ==
    4096
NV_DPCD_MBOX_UP_REP ==
    4608
NV_DPCD_MBOX_DOWN_REP ==
    5120
NV_DPCD_MBOX_UP_REQ ==
    5632
MailboxAddresses ==
    {NV_DPCD_MBOX_DOWN_REQ, NV_DPCD_MBOX_UP_REP, NV_DPCD_MBOX_DOWN_REP, NV_DPCD_MBOX_UP_REQ}

\* The calls of AuxLogger::transaction the model makes.
LoggerRequests ==
    [action : {"read", "write"}, type : {"native", "i2c"},
     address : MailboxAddresses \cup {0}, buffer : {0}, size : 0..MaxT]

\* DisplayPort::decodeHeader on a reader over len bytes: the headerSizeBits
\* the header holds afterwards (0 when nothing was decoded).
decodeHeader(len) == {8 * k : k \in 0..len}

NoLog == [forwarded |-> <<>>]

NoIssue == [action |-> "none", type |-> "none", address |-> 0, offset |-> 0, size |-> 0]

\* ---------------------------------------------------------------- Init
Idle ==
    /\ pc = "idle"
    /\ op = "none"
    /\ address = 0
    /\ size = 0
    /\ retries = 0
    /\ i = 0
    /\ chunkSize = 0
    /\ tAddress = 0
    /\ tOffset = 0
    /\ tSize = 0
    /\ tRetries = 0
    /\ status = "none"
    /\ completed = 0
    /\ outcome = "none"
    /\ budgetBefore = 0
    /\ issued = NoIssue
    /\ attempts = 0
    /\ calls = 0
    /\ result = "none"
    /\ chunkLog = <<>>
    /\ lg = NoLog

Init ==
    /\ aux \in BusKinds
    /\ Idle

\* ------------------------------------------------------------- the engine
\* Everything but aux, pc and lg.
engine == <<op, address, size, retries, i, chunkSize, tAddress, tOffset, tSize,
            tRetries, status, completed, outcome, budgetBefore, issued, attempts,
            calls, result, chunkLog>>

\* Entering readTransaction/writeTransaction with retries by reference, so
\* that a later chunk goes on with what an earlier one left.
EnterTransactionByReference(a, off, sz, r) ==
    /\ tAddress' = a
    /\ tOffset' = off
    /\ tSize' = sz
    /\ tRetries' = IF off = 0 THEN r ELSE tRetries
    /\ attempts' = 0

\* Entering readTransaction/writeTransaction(a, buffer + off, sz, r): the
\* arguments are copied, retries by value.
EnterTransaction(a, off, sz, r) ==
    /\ tAddress' = a
    /\ tOffset' = off
    /\ tSize' = sz
    /\ tRetries' = r
    /\ attempts' = 0

\* A caller starts read or write.
CallSpan ==
    /\ pc = "idle"
    /\ \E o \in {"read", "write"}, a \in Addresses, sz \in 0..MaxSize, r \in 0..MaxRetries :
         /\ op' = o
         /\ address' = a
         /\ size' = sz
         /\ retries' = r
    /\ i' = 0
    /\ pc' = "loop"
    /\ UNCHANGED <<aux, chunkSize, tAddress, tOffset, tSize, tRetries, status,
                   completed, outcome, budgetBefore, issued, attempts, calls,
                   result, chunkLog, lg>>

\* A caller starts readTransaction or writeTransaction; the size respects
\* the asserted precondition size <= transactionSize().
CallSingle ==
    /\ pc = "idle"
    /\ \E o \in SingleOps, a \in Addresses, sz \in 0..aux.transactionSize, r \in 0..MaxRetries :
         /\ op' = o
         /\ address' = a
         /\ size' = sz
         /\ retries' = r
         /\ EnterTransaction(a, 0, sz, r)
    /\ pc' = "txn"
    /\ UNCHANGED <<aux, i, chunkSize, status, completed, outcome, budgetBefore,
                   issued, calls, result, chunkLog, lg>>

\* read/write, loop test true: the next chunk is cut and handed to
\* readTransaction/writeTransaction.
ChunkStart ==
    /\ pc = "loop"
    /\ i < size
    /\ chunkSize' = DP_MIN(size - i, aux.transactionSize)
    /\ EnterTransaction(address + i, i, chunkSize', retries)
    /\ pc' = "txn"
    /\ UNCHANGED <<aux, op, address, size, retries, i, status, completed, outcome,
                   budgetBefore, issued, calls, result, chunkLog, lg>>

\* read/write, loop test false: return ack.
SpanDone ==
    /\ pc = "loop"
    /\ ~(i < size)
    /\ result' = "ack"
    /\ pc' = "done"
    /\ UNCHANGED <<aux, op, address, size, retries, i, chunkSize, tAddress, tOffset,
                   tSize, tRetries, status, completed, outcome, budgetBefore,
                   issued, attempts, calls, chunkLog, lg>>

\* The do-while test of readTransaction/writeTransaction as it would be if
\* nack were taken for one more transient outcome.
LoopsAgainOnNack(res, budget) == res \in {"defer", "nack"} /\ budget # 0

\* The do-while giving up with one retry still in the budget.
LoopsAgainButLast(res, budget) == res = "defer" /\ budget > 1

\* readTransaction/writeTransaction: whether the do-while goes round again
\* after an attempt classified res that left budget.
LoopsAgain(res, budget) == res = "defer" /\ budget # 0

\* read/write leaving the loop only on nack.
ChunkFailedOnlyNack(st) == st = "nack"

\* read/write: if (status != AuxRetry::ack) return status;
ChunkFailed(st) == st # "ack"

\* The bus call of a retry that takes up where a short completion of done
\* bytes stopped.
IssueResuming(o, a, off, sz, done) ==
    [action |-> ActionOf(o), type |-> "native", address |-> a + done,
     offset |-> off + done, size |-> sz - done]

\* aux->transaction(action, AuxBus::native, address, buffer, size, &completed)
\* as readTransaction/writeTransaction makes it; done is what the attempt
\* before it completed, if that fell short (0 otherwise).
Issue(o, a, off, sz, done) ==
    [action |-> ActionOf(o), type |-> "native", address |-> a,
     offset |-> off, size |-> sz]

\* The log entry of the current readTransaction/writeTransaction after one
\* more bus call.
Logged(log, first, entry) ==
    IF first THEN Append(log, entry) ELSE [log EXCEPT ![Len(log)] = entry]

\* One pass of the do-while of readTransaction/writeTransaction: the bus call,
\* its classification, and what follows from it up to the next bus call.
Transact(resp) ==
    LET h == handleTransaction(resp.status, resp.completed, tSize, tRetries)
        again == LoopsAgain(h.result, h.retries)
        ret == IF h.result # "defer" THEN h.result ELSE "defer"
        entry == [address |-> tAddress, offset |-> tOffset, size |-> tSize,
                  budget |-> IF attempts = 0 THEN tRetries ELSE chunkLog[Len(chunkLog)].budget,
                  retried |-> attempts > 0,
                  partial |-> \/ attempts > 0 /\ chunkLog[Len(chunkLog)].partial
                              \/ 0 < resp.completed /\ resp.completed < tSize,
                  outcome |-> IF again THEN "pending" ELSE ret]
    IN  /\ pc = "txn"
        /\ issued' = Issue(op, tAddress, tOffset, tSize,
                            IF attempts > 0 /\ completed < tSize THEN completed ELSE 0)
        /\ status' = resp.status
        /\ completed' = resp.completed
        /\ outcome' = h.result
        /\ budgetBefore' = tRetries
        /\ tRetries' = h.retries
        /\ attempts' = Bump(attempts)
        /\ calls' = Bump(calls)
        /\ chunkLog' = Logged(chunkLog, attempts = 0, entry)
        /\ IF again
             THEN /\ pc' = "txn"
                  /\ UNCHANGED <<i, result>>
           ELSE IF op \in SingleOps
             THEN /\ pc' = "done"
                  /\ result' = ret
                  /\ UNCHANGED i
           ELSE IF ChunkFailed(ret)
             THEN /\ pc' = "done"
                  /\ result' = ret
                  /\ UNCHANGED i
           ELSE /\ pc' = "loop"
                /\ i' = i + chunkSize
                /\ UNCHANGED result
        /\ UNCHANGED <<aux, op, address, size, retries, chunkSize, tAddress, tOffset, tSize, lg>>

Transaction ==
    \E resp \in BusTransaction(calls, tSize) : Transact(resp)

\* ------------------------------------------------------------- the logger
\* AuxLogger::transaction(action, type, address, buffer, sizeRequested, ...):
\* what it hands to the wrapped bus.
LoggerForwardNative(req) ==
    [action |-> req.action, type |-> "native", address |-> req.address,
     buffer |-> req.buffer, size |-> req.size]

LoggerForward(req) ==
    [action |-> req.action, type |-> req.type, address |-> req.address,
     buffer |-> req.buffer, size |-> req.size]

\* The mailbox branch taken without looking at the type.
IsMailboxTransactionAnyType(req, st) ==
    /\ st = "success"
    /\ req.address \in MailboxAddresses

\* Whether the call takes the mailbox branch.
IsMailboxTransaction(req, st) ==
    /\ st = "success"
    /\ req.type = "native"
    /\ req.address \in MailboxAddresses

\* The status AuxLogger::transaction returns, were the mailbox branch to
\* report success whatever the bus said.
LoggerReturnSwallow(st, mailbox) == IF mailbox THEN st ELSE "success"

\* The status AuxLogger::transaction returns: result, on both return paths.
LoggerReturn(st, mailbox) == IF mailbox THEN st ELSE st

\* The split point of the two dumps taken in bits.
HeaderBytesUndivided(bits) == bits

\* header.headerSizeBits / 8
HeaderBytes(bits) == bits \div 8

\* One call of AuxLogger::transaction in a build with or without DEBUG: the
\* bus answered resp, and decodeHeader (if called) left headerSizeBits = bits.
AuxLoggerTransaction(req, resp, bits, debug) ==
    LET mailbox == IsMailboxTransaction(req, resp.status)
        len == resp.completed
    IN  [request |-> req,
         forwarded |-> <<LoggerForward(req)>>,
         bus |-> resp,
         debug |-> debug,
         decoded |-> IF mailbox THEN <<len>> ELSE <<>>,
         headerSizeBits |-> IF mailbox THEN bits ELSE 0,
         hex |-> IF mailbox THEN HeaderBytes(bits) ELSE len,
         hex_body |-> IF mailbox THEN (len - HeaderBytes(bits)) % UnsignedModulus ELSE 0,
         dumps |-> IF mailbox
                     THEN <<HeaderBytes(bits), (len - HeaderBytes(bits)) % UnsignedModulus>>
                     ELSE <<len>>,
         lines |-> IF mailbox
                     THEN IF debug THEN <<"hint">> ELSE <<>>
                     ELSE <<"plain">>,
         result |-> LoggerReturn(resp.status, mailbox),
         sizeCompleted |-> len]

\* A caller runs one transaction through the logger.
LoggerTransaction ==
    /\ pc = "idle"
    /\ \E req \in LoggerRequests, debug \in BOOLEAN :
         \E resp \in BusTransaction(0, req.size) :
           \E bits \in decodeHeader(resp.completed) :
             lg' = AuxLoggerTransaction(req, resp, bits, debug)
    /\ pc' = "logged"
    /\ UNCHANGED <<aux, engine>>

\* The operation has returned; the caller goes on.
Return ==
    /\ pc \in {"done", "logged"}
    /\ pc' = "idle"
    /\ op' = "none"
    /\ address' = 0
    /\ size' = 0
    /\ retries' = 0
    /\ i' = 0
    /\ chunkSize' = 0
    /\ tAddress' = 0
    /\ tOffset' = 0
    /\ tSize' = 0
    /\ tRetries' = 0
    /\ status' = "none"
    /\ completed' = 0
    /\ outcome' = "none"
    /\ budgetBefore' = 0
    /\ issued' = NoIssue
    /\ attempts' = 0
    /\ calls' = 0
    /\ result' = "none"
    /\ chunkLog' = <<>>
    /\ lg' = NoLog
    /\ UNCHANGED aux

Next ==
    \/ CallSpan
    \/ CallSingle
    \/ ChunkStart
    \/ SpanDone
    \/ Transaction
    \/ LoggerTransaction
    \/ Return

Spec == Init /\ [][Next]_vars

\* The call chain is synchronous: a bus call returns and the caller goes on.
FairSpec == Spec /\ WF_vars(ChunkStart \/ SpanDone \/ Transaction)

\* ================================================================ claims
SpanOps == {"read", "write"}

Ceil(L, T) == (L + T - 1) \div T

Sizes(log) == [k \in DOMAIN log |-> log[k].size]

\* Every chunk so far was acked by its first bus call.
AllFirstTry ==
    \A k \in DOMAIN chunkLog : ~chunkLog[k].retried /\ chunkLog[k].outcome = "ack"

\* C1: on a bus that answers defer to every call, readTransaction and
\* writeTransaction with retries = r make exactly r + 1 bus calls and then
\* return defer.
C1_ExhaustionTakesRPlusOneAttempts ==
    (pc = "done" /\ op \in SingleOps /\ aux.mode = "alwaysDefer")
      => (attempts = retries + 1 /\ result = "defer")

\* C2: on a bus that answers defer to its first d calls, d <= retries, and
\* success with completed = size > 0 after that, readTransaction and
\* writeTransaction return ack.
C2_DeferRetriedUpToBudget ==
    (pc = "done" /\ op \in SingleOps /\ aux.mode = "deferThenSuccess"
       /\ aux.defers <= retries /\ size > 0)
      => result = "ack"

\* C3: read and write over a span of length size, transactionSize T > 0:
\* chunk k (from 0) is issued at address + k*T, buffer offset k*T, in this
\* order, with size T except for the last; and when every chunk is acked by
\* its first bus call there are ceil(size / T) bus calls, the chunks cover
\* each byte of the span exactly once and nothing else, and the result is ack.
C3_ChunksTileTheSpan ==
    op \in SpanOps =>
      LET T == aux.transactionSize
          n == Len(chunkLog)
      IN  /\ \A k \in 1..n :
                /\ chunkLog[k].address = address + (k - 1) * T
                /\ chunkLog[k].offset = (k - 1) * T
                /\ k < n => chunkLog[k].size = T
                /\ chunkLog[k].size = IF k * T <= size THEN T ELSE size - (k - 1) * T
                /\ chunkLog[k].size > 0
          /\ (pc = "done" /\ AllFirstTry) =>
                /\ calls = Ceil(size, T)
                /\ n = Ceil(size, T)
                /\ result = "ack"
                /\ \A b \in 0..(size - 1) :
                     Cardinality({k \in 1..n :
                        /\ chunkLog[k].offset <= b
                        /\ b < chunkLog[k].offset + chunkLog[k].size}) = 1
                /\ \A k \in 1..n : chunkLog[k].offset + chunkLog[k].size <= size

\* A read of 5 bytes over a bus of transactionSize 2, each chunk acked at
\* once: chunks of 2, 2 and 1.
C3_Witness ==
    /\ pc = "done"
    /\ op = "read"
    /\ size = 5
    /\ aux.transactionSize = 2
    /\ AllFirstTry
    /\ Sizes(chunkLog) = <<2, 2, 1>>
    /\ calls = 3
    /\ result = "ack"

\* C4: in read and write every chunk before the current one ended with ack;
\* once a chunk ends with anything else the operation has returned that
\* outcome, and no further bus call is made; ack is returned only when every
\* chunk ended with ack.
C4_EarlyExit ==
    /\ [](op \in SpanOps =>
            LET n == Len(chunkLog)
            IN  /\ \A k \in 1..(n - 1) : chunkLog[k].outcome = "ack"
                /\ calls >= n
                /\ (\A k \in 1..n : ~chunkLog[k].retried) => calls = n
                /\ (n > 0 /\ chunkLog[n].outcome \notin {"ack", "pending"})
                     => (pc = "done" /\ result = chunkLog[n].outcome)
                /\ (pc = "done" /\ result # "ack")
                     => (n > 0 /\ result = chunkLog[n].outcome)
                /\ result = "ack"
                     => (pc = "done" /\ i >= size
                           /\ \A k \in 1..n : chunkLog[k].outcome = "ack"))
    /\ [][(op \in SpanOps /\ chunkLog # <<>>
             /\ chunkLog[Len(chunkLog)].outcome \notin {"ack", "pending"})
            => (pc' = "idle" /\ calls' = 0)]_vars

\* A write of three chunks whose second chunk is nacked at once: two bus
\* calls, result nack.
C4_Witness ==
    /\ pc = "done"
    /\ op = "write"
    /\ size = 5
    /\ aux.transactionSize = 2
    /\ Len(chunkLog) = 2
    /\ ~chunkLog[1].retried
    /\ ~chunkLog[2].retried
    /\ chunkLog[2].outcome = "nack"
    /\ calls = 2
    /\ result = "nack"

\* C5: the attempt that handleTransaction classifies nack or
\* unsupportedRegister leaves the budget as it was, ends the operation with
\* that outcome, and is the last bus call of the operation.
C5_TerminalNotRetried ==
    /\ [](outcome \in {"nack", "unsupportedRegister"} =>
            /\ pc = "done"
            /\ result = outcome
            /\ tRetries = budgetBefore
            /\ chunkLog[Len(chunkLog)].outcome = outcome)
    /\ [][(outcome \in {"nack", "unsupportedRegister"})
            => (pc' = "idle" /\ calls' = 0)]_vars

\* readTransaction ends with unsupportedRegister after a defer, with budget
\* left.
C5_Witness ==
    /\ pc = "done"
    /\ op = "readTransaction"
    /\ outcome = "unsupportedRegister"
    /\ result = "unsupportedRegister"
    /\ attempts = 2
    /\ budgetBefore > 0
    /\ tRetries = budgetBefore

C7_FreshBudgetPerChunk ==
    /\ [](\A k \in DOMAIN chunkLog : chunkLog[k].budget = retries)
    /\ [][(pc # "idle" /\ pc' # "idle") => retries' = retries]_vars

\* The second chunk of a read starts with the full budget after the first
\* chunk spent some of it.
C7_Witness ==
    /\ op = "read"
    /\ retries >= 2
    /\ Len(chunkLog) = 2
    /\ chunkLog[1].retried
    /\ chunkLog[1].outcome = "ack"
    /\ chunkLog[2].budget = retries

\* handleTransaction over all its arguments within the bounds.  The function
\* is pure: the formulas below go through these while no operation is under
\* way, and through the reachable calls in every state.
ClassifierInputs ==
    [status : BusStatus, completed : 0..MaxCompleted, size : 0..MaxT,
     retries : 0..MaxRetries]

\* C8: whenever handleTransaction answers ack for 0 <= completed <= size,
\* completed = size and size > 0; the same holds of the last bus call of a
\* readTransaction/writeTransaction that returns ack.
C8_AckOnlyWhenComplete ==
    /\ pc = "idle" => \A x \in ClassifierInputs :
         (x.completed <= x.size
            /\ handleTransaction(x.status, x.completed, x.size, x.retries).result = "ack")
           => (x.completed = x.size /\ x.size > 0)
    /\ (outcome = "ack" /\ completed <= tSize) => (completed = tSize /\ tSize > 0)
    /\ (pc = "done" /\ op \in SingleOps /\ result = "ack" /\ completed <= tSize)
         => (completed = tSize /\ tSize > 0)

\* writeTransaction returns ack through the last rule of the classifier: a
\* status that is neither success, defer nor nack, with every byte completed.
C8_Witness ==
    /\ pc = "done"
    /\ op = "writeTransaction"
    /\ result = "ack"
    /\ status = "other"
    /\ completed = tSize
    /\ tSize > 0

\* C9: AuxLogger::transaction calls the wrapped bus once, with the action,
\* type, address, buffer and requested size it was given, and returns the
\* status and the completed size the bus returned, on every path.
C9_LoggerPassThrough ==
    pc = "logged" =>
      /\ Len(lg.forwarded) = 1
      /\ lg.forwarded[1].action = lg.request.action
      /\ lg.forwarded[1].type = lg.request.type
      /\ lg.forwarded[1].address = lg.request.address
      /\ lg.forwarded[1].buffer = lg.request.buffer
      /\ lg.forwarded[1].size = lg.request.size
      /\ lg.result = lg.bus.status
      /\ lg.sizeCompleted = lg.bus.completed

\* The logger hands back a nack of an i2c read at a mailbox address, with
\* the short count of the bus.
C9_Witness ==
    /\ pc = "logged"
    /\ lg.request.type = "i2c"
    /\ lg.request.address = NV_DPCD_MBOX_DOWN_REP
    /\ lg.bus.status = "nack"
    /\ lg.result = "nack"
    /\ lg.request.size = 2
    /\ lg.sizeCompleted = 1

\* C10: whenever AuxLogger::transaction calls decodeHeader, the completed
\* byte count is at least the smallest header size; in particular it is not
\* zero.
C10_DecodeOnlyWithBytes ==
    pc = "logged" => \A d \in DOMAIN lg.decoded : lg.decoded[d] >= 1

\* C11: every call of AuxLogger::transaction puts exactly one line on the
\* trace sink, with or without DEBUG.
C11_OneTraceLinePerCall ==
    pc = "logged" => Len(lg.lines) = 1

\* The six rules of the classifier, first match first, each with the guard
\* that excludes the rules before it.
SixRules(st, done, sz, budget) ==
    LET spent == IF budget > 0 THEN budget - 1 ELSE budget
        r1 == st = "success" /\ done = sz /\ done # 0
        r2 == st = "defer"
        r3 == st = "nack"
        r4 == done = 0
        r5 == done < sz
    IN  CASE r1 -> <<"ack", budget>>
          [] ~r1 /\ r2 -> <<"defer", spent>>
          [] ~r1 /\ ~r2 /\ r3 -> <<"nack", budget>>
          [] ~r1 /\ ~r2 /\ ~r3 /\ r4 -> <<"unsupportedRegister", budget>>
          [] ~r1 /\ ~r2 /\ ~r3 /\ ~r4 /\ r5 -> <<"defer", spent>>
          [] ~r1 /\ ~r2 /\ ~r3 /\ ~r4 /\ ~r5 -> <<"ack", budget>>

\* C12: for every status, completed count, size and budget handleTransaction
\* yields one of the four outcomes and a budget, and they are those of the
\* six-rule table; so are the outcome and the budget of every bus call the
\* engine has classified.
C12_ClassifierIsTheTable ==
    /\ pc = "idle" => \A x \in ClassifierInputs :
         LET h == handleTransaction(x.status, x.completed, x.size, x.retries)
         IN  /\ h.result \in {"ack", "nack", "unsupportedRegister", "defer"}
             /\ <<h.result, h.retries>> = SixRules(x.status, x.completed, x.size, x.retries)
    /\ attempts > 0 =>
         <<outcome, tRetries>> = SixRules(status, completed, tSize, budgetBefore)

\* A nack that completed no byte, with budget left: rule 3 wins over rule 4.
C12_Witness ==
    /\ pc = "done"
    /\ status = "nack"
    /\ completed = 0
    /\ tSize > 0
    /\ budgetBefore > 0
    /\ outcome = "nack"
    /\ tRetries = budgetBefore

\* C13: handleTransaction never raises the budget nor takes it below zero;
\* it lowers it by one exactly when the outcome is defer and the budget was
\* positive; the outcome is defer exactly on a raw defer or on a short
\* completion (0 < completed < size) of a status other than defer and nack.
C13_BudgetOnlySpentOnDefer ==
    /\ pc = "idle" => \A x \in ClassifierInputs :
         LET h == handleTransaction(x.status, x.completed, x.size, x.retries)
         IN  /\ h.retries >= 0
             /\ h.retries <= x.retries
             /\ h.retries = IF h.result = "defer" /\ x.retries > 0
                              THEN x.retries - 1 ELSE x.retries
             /\ h.result = "defer" <=>
                  \/ x.status = "defer"
                  \/ /\ x.status \notin {"defer", "nack"}
                     /\ 0 < x.completed
                     /\ x.completed < x.size
             /\ (x.status = "defer" /\ x.retries = 0) => (h.result = "defer" /\ h.retries = 0)
             /\ (x.status = "success" /\ x.completed = x.size /\ x.size > 0)
                  => (h.result = "ack" /\ h.retries = x.retries)
    /\ attempts > 0 =>
         /\ tRetries >= 0
         /\ tRetries = IF outcome = "defer" /\ budgetBefore > 0
                         THEN budgetBefore - 1 ELSE budgetBefore

\* A success that fell short of the request costs one retry.
C13_Witness ==
    /\ status = "success"
    /\ 0 < completed
    /\ completed < tSize
    /\ outcome = "defer"
    /\ budgetBefore = 2
    /\ tRetries = 1

\* C14: a read or write over n = ceil(size / transactionSize) chunks with
\* retries = r makes at most n * (r + 1) bus calls, whatever the bus answers;
\* so do the chunks entered so far.
C14_CallsBounded ==
    (op \in SpanOps \/ op \in SingleOps) =>
      /\ calls <= Len(chunkLog) * (retries + 1)
      /\ op \in SpanOps => calls <= Ceil(size, aux.transactionSize) * (retries + 1)
      /\ attempts <= retries + 1

\* A read of 5 chunks with retries = 3 that spent every retry it was given.
C14_Witness ==
    /\ pc = "done"
    /\ op = "read"
    /\ size = 5
    /\ aux.transactionSize = 1
    /\ retries = 3
    /\ Len(chunkLog) = 5
    /\ calls = 15

\* DP_ASSERT(size <= aux->transactionSize())
SizeAsserted(sz) == sz <= aux.transactionSize

\* C15: every readTransaction/writeTransaction that read or write enters,
\* and every bus call they issue, asks for at least one byte and at most
\* transactionSize() bytes: the assertion at their head holds.
C15_ChunkWithinTransactionSize ==
    op \in SpanOps =>
      /\ pc = "txn" => (SizeAsserted(tSize) /\ tSize > 0 /\ tSize = chunkSize)
      /\ calls > 0 => (SizeAsserted(issued.size) /\ issued.size > 0)
      /\ \A k \in DOMAIN chunkLog :
           SizeAsserted(chunkLog[k].size) /\ chunkLog[k].size > 0

\* The first chunk of a write of more bytes than the bus takes at once.
C15_Witness ==
    /\ pc = "txn"
    /\ op = "write"
    /\ size = 5
    /\ aux.transactionSize = 2
    /\ i = 0
    /\ tSize = 2
    /\ calls = 1
    /\ issued.size = 2

\* C16: AuxLogger::transaction calls decodeHeader exactly when the bus
\* returned success, the type is native and the address is one of the four
\* mailbox addresses; otherwise it decodes nothing and emits the plain line
\* after one dump of the completed bytes.
C16_DecodeIffMailboxSuccess ==
    pc = "logged" =>
      LET mailbox == /\ lg.bus.status = "success"
                     /\ lg.request.type = "native"
                     /\ lg.request.address \in
                          {NV_DPCD_MBOX_DOWN_REQ, NV_DPCD_MBOX_UP_REP,
                           NV_DPCD_MBOX_DOWN_REP, NV_DPCD_MBOX_UP_REQ}
      IN  /\ mailbox => (Len(lg.decoded) = 1 /\ Len(lg.dumps) = 2)
          /\ ~mailbox =>
               /\ lg.decoded = <<>>
               /\ lg.lines = <<"plain">>
               /\ lg.dumps = <<lg.bus.completed>>

\* A success away from the mailboxes: one plain line, nothing decoded.
C16_Witness ==
    /\ pc = "logged"
    /\ lg.bus.status = "success"
    /\ lg.request.type = "native"
    /\ lg.request.address = 0
    /\ lg.request.size = 2
    /\ lg.bus.completed = 2
    /\ lg.decoded = <<>>
    /\ lg.lines = <<"plain">>

\* C17: readTransaction and writeTransaction return defer only with their
\* budget at zero, called directly or for a chunk of read/write.
C17_DeferOnlyWhenExhausted ==
    /\ (pc = "done" /\ result = "defer") => tRetries = 0
    /\ \A k \in DOMAIN chunkLog :
         chunkLog[k].outcome = "defer" => (k = Len(chunkLog) /\ tRetries = 0)

\* writeTransaction gives up after spending a budget of 3.
C17_Witness ==
    /\ pc = "done"
    /\ op = "writeTransaction"
    /\ retries = 3
    /\ attempts = 3
    /\ result = "defer"
    /\ tRetries = 0

\* C18: within one readTransaction/writeTransaction every bus call carries
\* the action of the operation, the native type, and the address, buffer
\* start and size the call was entered with; a retry after a short
\* completion asks for the whole chunk again.
C18_RetryRepeatsTheRequest ==
    /\ [](attempts > 0 =>
            /\ issued.action = ActionOf(op)
            /\ issued.type = "native"
            /\ issued.address = tAddress
            /\ issued.offset = tOffset
            /\ issued.size = tSize)
    /\ [][(attempts > 0 /\ attempts' > attempts)
            => (issued' = issued /\ tAddress' = tAddress /\ tOffset' = tOffset
                  /\ tSize' = tSize)]_vars

\* The second bus call of a chunk whose first completed 1 byte of 2: it
\* asked for both bytes from the start of the chunk, and got them.
C18_Witness ==
    /\ op = "read"
    /\ attempts = 2
    /\ chunkLog[Len(chunkLog)].partial
    /\ tSize = 2
    /\ status = "success"
    /\ completed = 2
    /\ outcome = "ack"
    /\ issued.size = 2
    /\ issued.address = tAddress
    /\ issued.offset = tOffset

\* C19 as first stated: read and write of size 0 make no bus call and return
\* ack; readTransaction and writeTransaction of size 0 make one bus call, and
\* do not return ack when the bus reports no byte completed.
C19_ZeroSizeOneTransaction ==
    /\ (pc = "done" /\ op \in SpanOps /\ size = 0)
         => (calls = 0 /\ chunkLog = <<>> /\ result = "ack")
    /\ (pc = "done" /\ op \in SingleOps /\ size = 0)
         => (calls = 1 /\ (completed = 0 => result # "ack"))

\* C19: read and write of size 0 make no bus call and return ack;
\* readTransaction and writeTransaction of size 0 make at least one bus call
\* (more than one only after defers that left budget), and do not return ack
\* when the bus reports no byte completed.
C19_ZeroSize ==
    /\ (op \in SpanOps /\ size = 0) => (calls = 0 /\ chunkLog = <<>>)
    /\ (pc = "done" /\ op \in SpanOps /\ size = 0) => result = "ack"
    /\ (pc = "done" /\ op \in SingleOps /\ size = 0) =>
         /\ calls >= 1
         /\ calls > 1 => (retries > 1 /\ tRetries <= retries - (calls - 1))
         /\ completed = 0 => result # "ack"

\* readTransaction of size 0 on a bus that reports success with no byte.
C19_Witness ==
    /\ pc = "done"
    /\ op = "readTransaction"
    /\ size = 0
    /\ status = "success"
    /\ completed = 0
    /\ calls = 1
    /\ result = "unsupportedRegister"

====
